---- MODULE Spec2Model ----
(***************************************************************************)
(* A model of zither (src/zither/zither.py): the pipeline that rewrites a  *)
(* VCF with per-sample depth / alt-frequency fields pulled from BAM files. *)
(*                                                                         *)
(* Text is modelled structurally.  A line of a VCF is a record             *)
(* [hash, fields]: `hash' is the number of leading '#' characters of the   *)
(* line and `fields' its tab-separated fields (the first one without the   *)
(* leading '#'s), so startswith and split("\t") are computed, not assumed. *)
(* An allele is a sequence of one-character strings, so upper() and len()  *)
(* are computed.  A path is a record [dir, stem, ext].  A Python call that *)
(* may raise returns a record whose `raise' field names the exception      *)
(* ("" when it returns normally).                                          *)
(*                                                                         *)
(* The code is read as the Python 2 program it is (csv.reader over a file  *)
(* opened 'rb', count_coverage(chr=...)); `/' is true division (line 17).  *)
(* pysam is modelled by its contract: AlignmentFile raises for a file that *)
(* cannot be opened, count_coverage raises ValueError "invalid reference"  *)
(* for an unknown contig and another ValueError for a file without index.  *)
(***************************************************************************)
EXTENDS Integers, Sequences, FiniteSets, TLC

VARIABLES
    args,                \* the parsed command line (main, line 265)
    input_file,          \* the lines of the file args.input_vcf
    tags,                \* the tag set given to _create_vcf
    pc,                  \* where main / _create_vcf stands
    strategy,            \* the strategy object built at line 267
    sample_bam_mapping,  \* the mapping built at line 268
    reader_dict,         \* the OrderedDict built at line 269
    handles,             \* every pysam.AlignmentFile the run has opened
    stdout,              \* the lines printed so far
    line_no,             \* how many lines of readlines() the loop has consumed
    n_queries,           \* how many count_coverage calls the run has issued
    error,               \* the exception that ended the run, if any
    call,                \* arguments of a direct _init_depth_freq call
    ret                  \* <<>> or <<result>> of that call

vars == <<args, input_file, tags, pc, strategy, sample_bam_mapping, reader_dict,
          handles, stdout, line_no, n_queries, error, call, ret>>

(***************************************************************************)
(* Bounds of the model.                                                    *)
(***************************************************************************)
MaxLines == 3       \* lines in the input VCF
MaxCount == 2       \* largest per-base count in a directly supplied coverage

(***************************************************************************)
(* Python values and text helpers.                                         *)
(***************************************************************************)
None == ""

Line(hash, fields) == [hash |-> hash, fields |-> fields]

\* line.startswith("#" * n)
startswith(line, n) == line.hash >= n

\* line.rstrip("\n").split("\t")
split(line) == line.fields

Min(a, b) == IF a < b THEN a ELSE b

\* seq[0:n]
slice_to(seq, n) == SubSeq(seq, 1, Min(n, Len(seq)))

\* OrderedDict (and the one-entry dict of line 46): a sequence of <<key, value>>
\* in insertion order; assigning to an existing key keeps its position.
od_keys(od) == [i \in 1..Len(od) |-> od[i][1]]

od_has(od, k) == \E i \in 1..Len(od) : od[i][1] = k

od_get(od, k) == od[CHOOSE i \in 1..Len(od) : od[i][1] = k][2]

od_set(od, k, v) ==
    IF od_has(od, k)
    THEN [i \in 1..Len(od) |-> IF od[i][1] = k THEN <<k, v>> ELSE od[i]]
    ELSE Append(od, <<k, v>>)

\* str.upper() on one character, then on a string
upper_char(c) ==
    CASE c = "a" -> "A" [] c = "c" -> "C" [] c = "g" -> "G" [] c = "t" -> "T"
      [] c = "n" -> "N" [] OTHER -> c

upper(s) == [i \in 1..Len(s) |-> upper_char(s[i])]

RECURSIVE gcd(_, _)
gcd(a, b) == IF b = 0 THEN a ELSE gcd(b, a % b)

\* a / b under `from __future__ import division': a float, or ZeroDivisionError.
\* The float is modelled by the quotient in lowest terms: for the small
\* denominators of the model two quotients are the same double exactly when
\* they are the same rational.
truediv(a, b) ==
    IF b = 0
    THEN [raise |-> "ZeroDivisionError", value |-> <<0, 1>>]
    ELSE [raise |-> "", value |-> <<a \div gcd(a, b), b \div gcd(a, b)>>]

\* str(float): one string per float value
str_float(f) == ToString(f[1]) \o "/" \o ToString(f[2])

\* str(int)
str_int(n) == ToString(n)

\* int(POS)
py_int(s) ==
    CASE s = "1" -> [raise |-> "", value |-> 1]
      [] s = "2" -> [raise |-> "", value |-> 2]
      [] OTHER   -> [raise |-> "ValueError", value |-> 0]

(***************************************************************************)
(* Paths.                                                                  *)
(***************************************************************************)
Path(dir, stem, ext) == [dir |-> dir, stem |-> stem, ext |-> ext]

NoPath == Path("", "", "")          \* an option that was not given (None)

truthy_path(p) == p # NoPath

os_path_dirname(p) == p.dir

os_path_basename(p) == Path("", p.stem, p.ext)

\* os.path.splitext of a bare file name: <<root, ext>>
os_path_splitext(p) == <<p.stem, p.ext>>

\* os.path.join(dir, name + ext)
os_path_join(dir, stem, ext) == Path(dir, stem, ext)

\* path == os.path.abspath(path): the modelled relative paths are bare file names
is_abs(p) == p.dir # ""

(***************************************************************************)
(* Module constants of zither.py.                                          *)
(***************************************************************************)
\* the leading '#' of "#CHROM" is the hash count of the line that carries these
_VCF_FIXED_HEADERS ==
    <<"CHROM", "POS", "ID", "REF", "ALT", "QUAL", "FILTER", "INFO", "FORMAT">>

_NULL == "."

_PYSAM_BASE_INDEX ==
    (<<"A">> :> 0) @@ (<<"C">> :> 1) @@ (<<"G">> :> 2) @@ (<<"T">> :> 3)

(***************************************************************************)
(* _PileupStats (lines 90-116).                                            *)
(***************************************************************************)
\* _PileupStats._init_depth_freq without the `total_depth and' guard of line 108
_init_depth_freq_unguarded(ref, alt, coverage) ==
    LET alt_upper   == upper(alt)
        total_depth == coverage[1][1] + coverage[2][1] + coverage[3][1] + coverage[4][1]
    IN  IF alt_upper \notin DOMAIN _PYSAM_BASE_INDEX
        THEN [raise |-> "", value |-> <<total_depth, _NULL>>]
        ELSE LET variant_count == coverage[_PYSAM_BASE_INDEX[alt_upper] + 1][1]
                 q             == truediv(variant_count, total_depth)
             IN  IF Len(ref) = 1
                 THEN IF q.raise # ""
                      THEN [raise |-> q.raise, value |-> <<total_depth, _NULL>>]
                      ELSE [raise |-> "", value |-> <<total_depth, str_float(q.value)>>]
                 ELSE [raise |-> "", value |-> <<total_depth, _NULL>>]

\* _PileupStats._init_depth_freq: <<total_depth, freq>>.  The lookup of line 107
\* raises KeyError for an alt that is no key, which line 114 catches; any other
\* exception of the try block would leave the function.
_init_depth_freq(ref, alt, coverage) ==
    LET alt_upper   == upper(alt)
        total_depth == coverage[1][1] + coverage[2][1] + coverage[3][1] + coverage[4][1]
    IN  IF alt_upper \notin DOMAIN _PYSAM_BASE_INDEX
        THEN [raise |-> "", value |-> <<total_depth, _NULL>>]
        ELSE LET variant_count == coverage[_PYSAM_BASE_INDEX[alt_upper] + 1][1]
                 q             == truediv(variant_count, total_depth)
             IN  IF total_depth # 0 /\ Len(ref) = 1
                 THEN IF q.raise # ""
                      THEN [raise |-> q.raise, value |-> <<total_depth, _NULL>>]
                      ELSE [raise |-> "", value |-> <<total_depth, str_float(q.value)>>]
                 ELSE [raise |-> "", value |-> <<total_depth, _NULL>>]

NoStats ==
    [total_depth |-> 0, total_af |-> _NULL,
     zither_total_depth |-> 0, zither_total_af |-> _NULL,
     filtered_depth |-> 0, filtered_af |-> _NULL]

\* lines 93-95: the three results stored as the six attributes
pileup_stats_attributes(t, z, f) ==
    IF t.raise # "" THEN [raise |-> t.raise, value |-> NoStats]
    ELSE IF z.raise # "" THEN [raise |-> z.raise, value |-> NoStats]
    ELSE IF f.raise # "" THEN [raise |-> f.raise, value |-> NoStats]
    ELSE [raise |-> "",
          value |-> [total_depth |-> t.value[1], total_af |-> t.value[2],
                     zither_total_depth |-> z.value[1], zither_total_af |-> z.value[2],
                     filtered_depth |-> f.value[1], filtered_af |-> f.value[2]]]

\* _PileupStats.__init__
_PileupStats(ref, alt, unfiltered_coverage, filtered_coverage) ==
    pileup_stats_attributes(_init_depth_freq(ref, alt, unfiltered_coverage),
                            _init_depth_freq(ref, alt, unfiltered_coverage),
                            _init_depth_freq(ref, alt, filtered_coverage))

(***************************************************************************)
(* _Tag and DEFAULT_TAGS (lines 147-163).  `attr' is the _PileupStats      *)
(* attribute the tag's lambda reads.                                       *)
(***************************************************************************)
_Tag(id, number, type, description, attr) ==
    [id |-> id,
     metaheader |-> Line(2, <<"FORMAT=<ID=", id, ",Number=", number, ",Type=", type,
                              ",Description=", description, ">">>),
     attr |-> attr]

\* _Tag.get_value: str() of the attribute; the depths are ints, the
\* frequencies are already strings
get_value(tag, pileup_stats) ==
    IF tag.attr \in {"total_depth", "zither_total_depth", "filtered_depth"}
    THEN str_int(pileup_stats[tag.attr])
    ELSE pileup_stats[tag.attr]

zither_total_depth ==
    _Tag("ZTDP", "1", "Integer", "Zither total (unfiltered) BAM depth", "zither_total_depth")

zither_total_af ==
    _Tag("ZTAF", "1", "Float", "Zither total (unfiltered) BAM alt frequency", "zither_total_af")

filtered_depth ==
    _Tag("ZFDP", "1", "Integer", "Zither filtered BAM depth", "filtered_depth")

filtered_af ==
    _Tag("ZFAF", "1", "Float", "Zither filtered BAM alt frequency", "filtered_af")

DEFAULT_TAGS == <<zither_total_depth, zither_total_af, filtered_depth, filtered_af>>

\* the tag sets a caller of _create_vcf passes: the default, and a custom one
TagSets == {DEFAULT_TAGS, <<filtered_af, zither_total_depth>>}

(***************************************************************************)
(* The files of the run: BAM files as pysam sees them, and mapping files.  *)
(***************************************************************************)
DataDir == "/data"

S1Bam == Path(DataDir, "S1", ".bam")
S2Bam == Path(DataDir, "S2", ".bam")
S3Bam == Path(DataDir, "S3", ".bam")      \* exists, but has no index
S4Bam == Path(DataDir, "S4", ".bam")      \* does not exist

Read(base, quality) == [base |-> base, quality |-> quality]

bam_exists(bam) == bam \in {S1Bam, S2Bam, S3Bam}

bam_indexed(bam) == bam \in {S1Bam, S2Bam}

\* the contigs of the BAM header
bam_references(bam) ==
    IF bam = S1Bam THEN {"chr1", "chr2"} ELSE IF bam = S2Bam THEN {"chr1"} ELSE {}

\* the bases (with their base-call qualities) aligned over a 1-based position
bam_pileup(bam, chrom, pos) ==
    CASE bam = S1Bam /\ chrom = "chr1" /\ pos = 1 ->
            <<Read("A", 30), Read("C", 30), Read("C", 10), Read("A", 5)>>
      [] bam = S1Bam /\ chrom = "chr1" /\ pos = 2 ->
            <<Read("T", 30), Read("A", 30), Read("A", 12), Read("N", 30)>>
      [] bam = S1Bam /\ chrom = "chr2" /\ pos = 2 ->
            <<Read("G", 40), Read("G", 3), Read("T", 20)>>
      [] bam = S2Bam /\ chrom = "chr1" /\ pos = 1 ->
            <<Read("C", 30), Read("C", 8), Read("G", 20)>>
      [] OTHER -> <<>>

\* pysam.AlignmentFile(bam_file_name, "rb")
AlignmentFile(bam_file_name) ==
    IF bam_exists(bam_file_name)
    THEN [raise |-> "", value |-> [file |-> bam_file_name, state |-> "open"]]
    ELSE [raise |-> "IOError", value |-> [file |-> bam_file_name, state |-> "closed"]]

\* AlignmentFile.count_coverage over the one position [start, stop): four
\* arrays of length 1, for A, C, G, T, counting the bases whose quality is at
\* least quality_threshold; read_callback 'nofilter' keeps every read.  A
\* contig the file does not know, or a file without index, raises ValueError.
count_coverage(bam, chr, start, stop, quality_threshold, read_callback) ==
    LET pile    == bam_pileup(bam, chr, start + 1)
        n(base) == Len(SelectSeq(pile, LAMBDA r : r.base = base /\ r.quality >= quality_threshold))
        zero    == <<<<0>>, <<0>>, <<0>>, <<0>>>>
    IN  IF ~bam_indexed(bam)
        THEN [raise |-> "ValueError", message |-> "fetch called on bamfile without index",
              value |-> zero]
        ELSE IF chr \notin bam_references(bam)
        THEN [raise |-> "ValueError", message |-> "invalid reference", value |-> zero]
        ELSE [raise |-> "", message |-> "",
              value |-> <<<<n("A")>>, <<n("C")>>, <<n("G")>>, <<n("T")>>>>]

MapA == Path(DataDir, "mapA", ".tsv")
MapB == Path(DataDir, "mapB", ".tsv")
MapC == Path(DataDir, "mapC", ".tsv")
MapD == Path(DataDir, "mapD", ".tsv")
MapE == Path(DataDir, "mapE", ".tsv")

\* csv.reader(tsvfile, delimiter='\t'): the rows of a mapping file
mapping_file_rows(mapping_file) ==
    CASE mapping_file = MapA ->
            << <<"S2", Path("", "S2", ".bam")>>, <<"S1", S1Bam>> >>
      [] mapping_file = MapB ->
            << <<"S1", S1Bam>>, <<"S4", Path("", "S4", ".bam")>> >>
      [] mapping_file = MapC ->
            << <<"S4", S4Bam>>, <<"S1", Path("", "S1", ".bam")>> >>
      [] mapping_file = MapD ->
            << <<"S1", S1Bam>>, <<"S3", S3Bam>> >>
      [] mapping_file = MapE ->
            << <<"S1", S1Bam>>, <<"S2", S2Bam, "tumor">> >>
      [] OTHER -> <<>>

(***************************************************************************)
(* The three strategies (lines 39-87).                                     *)
(***************************************************************************)
\* _get_sample_names: the fields after the ninth of the last '#' line that is
\* no '##' line
RECURSIVE get_sample_names_loop(_, _, _)
get_sample_names_loop(lines, i, sample_names) ==
    IF i > Len(lines) THEN sample_names
    ELSE IF ~startswith(lines[i], 2) /\ startswith(lines[i], 1)
    THEN LET column_fields == split(lines[i])
             n             == Len(column_fields)
         IN  get_sample_names_loop(lines, i + 1, SubSeq(column_fields, 10, n))
    ELSE get_sample_names_loop(lines, i + 1, sample_names)

\* input_file.readlines() returning the file without its first line
readlines_skipping_first(file) == IF Len(file) = 0 THEN file ELSE Tail(file)

\* input_file.readlines()
readlines(file) == file

_get_sample_names(file) == get_sample_names_loop(readlines(file), 1, <<>>)

\* _get_sample_bam_strategy
_get_sample_bam_strategy(a, file) ==
    IF truthy_path(a.mapping_file)
    THEN [class |-> "_MappingFileStrategy", _mapping_file |-> a.mapping_file]
    ELSE IF truthy_path(a.bam)
    THEN [class |-> "_ExplicitBamFileStrategy", _bam_file_path |-> a.bam]
    ELSE [class |-> "_MatchingNameStrategy",
          _sample_names |-> _get_sample_names(file),
          _input_vcf_path |-> a.input_vcf]

\* _MappingFileStrategy._abs_path
_abs_path(mapping_file, path) ==
    LET mapping_dir_path == os_path_dirname(mapping_file)
    IN  IF ~is_abs(path) THEN os_path_join(mapping_dir_path, path.stem, path.ext) ELSE path

\* the loop of _MappingFileStrategy.build_sample_bam_mapping; unpacking a row
\* that has not exactly two fields raises ValueError
RECURSIVE mapping_file_loop(_, _, _, _)
mapping_file_loop(mapping_file, rows, i, sample_bam_mapping_) ==
    IF i > Len(rows) THEN [raise |-> "", value |-> sample_bam_mapping_]
    ELSE IF Len(rows[i]) # 2 THEN [raise |-> "ValueError", value |-> <<>>]
    ELSE mapping_file_loop(mapping_file, rows, i + 1,
             od_set(sample_bam_mapping_, rows[i][1], _abs_path(mapping_file, rows[i][2])))

\* the loop of _MatchingNameStrategy.build_sample_bam_mapping
RECURSIVE matching_name_loop(_, _, _, _)
matching_name_loop(bam_dir, sample_names, i, sample_bam_mapping_) ==
    IF i > Len(sample_names) THEN sample_bam_mapping_
    ELSE matching_name_loop(bam_dir, sample_names, i + 1,
             od_set(sample_bam_mapping_, sample_names[i],
                    os_path_join(bam_dir, sample_names[i], ".bam")))

\* strategy.build_sample_bam_mapping(), for each of the three classes
build_sample_bam_mapping(s) ==
    CASE s.class = "_MappingFileStrategy" ->
            mapping_file_loop(s._mapping_file, mapping_file_rows(s._mapping_file), 1, <<>>)
      [] s.class = "_ExplicitBamFileStrategy" ->
            LET sample_file == os_path_basename(s._bam_file_path)
                sample_name == os_path_splitext(sample_file)[1]
            IN  [raise |-> "", value |-> << <<sample_name, s._bam_file_path>> >>]
      [] s.class = "_MatchingNameStrategy" ->
            [raise |-> "",
             value |-> matching_name_loop(os_path_dirname(s._input_vcf_path),
                                          s._sample_names, 1, <<>>)]

(***************************************************************************)
(* _BamReader (lines 119-145).                                             *)
(***************************************************************************)
\* line 142
ZeroCoverage == <<<<0>>, <<0>>, <<0>>, <<0>>>>

\* _BamReader.__init__: opens the file; `handle' is the AlignmentFile it owns
_BamReader(bam_file_name, handle_id) ==
    LET f == AlignmentFile(bam_file_name)
    IN  [raise  |-> f.raise,
         value  |-> [_bam_file_name |-> bam_file_name, _bam_file |-> handle_id],
         handle |-> f.value]

\* lines 140-145 for the outcome c of the count_coverage call, had the except
\* clause no test of the message
stats_of_coverage_any_error(c, ref, alt) ==
    IF c.raise # "" /\ c.raise # "ValueError"
    THEN [raise |-> c.raise, value |-> NoStats]
    ELSE IF c.raise # ""
    THEN _PileupStats(ref, alt, ZeroCoverage, ZeroCoverage)
    ELSE _PileupStats(ref, alt, c.value, c.value)

\* lines 140-145 for the outcome c of the count_coverage call: a ValueError
\* whose message starts with "invalid reference" becomes the zero coverage,
\* any other exception leaves the method
stats_of_coverage(c, ref, alt) ==
    IF c.raise # "" /\ ~(c.raise = "ValueError" /\ c.message = "invalid reference")
    THEN [raise |-> c.raise, value |-> NoStats]
    ELSE IF c.raise # ""
    THEN _PileupStats(ref, alt, ZeroCoverage, ZeroCoverage)
    ELSE _PileupStats(ref, alt, c.value, c.value)

\* lines 140-145 with the filtered coverage taken from a second outcome d
stats_of_two_coverages(c, d, ref, alt) ==
    IF c.raise # "" /\ ~(c.raise = "ValueError" /\ c.message = "invalid reference")
    THEN [raise |-> c.raise, value |-> NoStats]
    ELSE IF c.raise # "" \/ d.raise # ""
    THEN _PileupStats(ref, alt, ZeroCoverage, ZeroCoverage)
    ELSE _PileupStats(ref, alt, c.value, d.value)

queried(st, n) == [raise |-> st.raise, value |-> st.value, queries |-> n]

\* get_pileup_stats treating every ValueError of count_coverage as an unknown contig
get_pileup_stats_any_error(reader, chrom, pos_one_based, ref, alt) ==
    queried(stats_of_coverage_any_error(
                count_coverage(reader._bam_file_name, chrom, pos_one_based - 1,
                               pos_one_based, -1, "nofilter"), ref, alt), 1)

\* get_pileup_stats taking the filtered depth from a second count_coverage
\* call that leaves quality_threshold at pysam's default
get_pileup_stats_second_pass(reader, chrom, pos_one_based, ref, alt) ==
    queried(stats_of_two_coverages(
                count_coverage(reader._bam_file_name, chrom, pos_one_based - 1,
                               pos_one_based, -1, "nofilter"),
                count_coverage(reader._bam_file_name, chrom, pos_one_based - 1,
                               pos_one_based, 15, "nofilter"), ref, alt), 2)

\* _BamReader.get_pileup_stats: one count_coverage call over
\* [pos_zero_based, pos_one_based) with quality_threshold -1;
\* `queries' counts the count_coverage calls
get_pileup_stats(reader, chrom, pos_one_based, ref, alt) ==
    queried(stats_of_coverage(
                count_coverage(reader._bam_file_name, chrom, pos_one_based - 1,
                               pos_one_based, -1, "nofilter"), ref, alt), 1)

(***************************************************************************)
(* main's helpers (lines 166-232).                                         *)
(***************************************************************************)
\* _build_execution_context: an OrderedDict of four entries
_build_execution_context ==
    << <<"timestamp", "2014-01-01 00:00:00">>, <<"command", "zither calls.vcf">>,
       <<"cwd", "/data">>, <<"version", "0.2">> >>

\* the loop of _build_reader_dict; `opened' collects the AlignmentFiles opened,
\* which stay open when a later _BamReader raises
RECURSIVE build_reader_loop(_, _, _, _)
build_reader_loop(items, i, readers_dict, opened) ==
    IF i > Len(items) THEN [raise |-> "", value |-> readers_dict, opened |-> opened]
    ELSE LET r == _BamReader(items[i][2], Len(opened) + 1)
         IN  IF r.raise # ""
             THEN [raise |-> r.raise, value |-> <<>>, opened |-> opened]
             ELSE build_reader_loop(items, i + 1, od_set(readers_dict, items[i][1], r.value),
                                    Append(opened, r.handle))

\* a _build_reader_dict that leaves out the samples whose file cannot be opened
RECURSIVE build_reader_loop_skipping(_, _, _, _)
build_reader_loop_skipping(items, i, readers_dict, opened) ==
    IF i > Len(items) THEN [raise |-> "", value |-> readers_dict, opened |-> opened]
    ELSE LET r == _BamReader(items[i][2], Len(opened) + 1)
         IN  IF r.raise # ""
             THEN build_reader_loop_skipping(items, i + 1, readers_dict, opened)
             ELSE build_reader_loop_skipping(items, i + 1,
                                             od_set(readers_dict, items[i][1], r.value),
                                             Append(opened, r.handle))

_build_reader_dict_skipping(mapping) == build_reader_loop_skipping(mapping, 1, <<>>, <<>>)

_build_reader_dict(mapping) == build_reader_loop(mapping, 1, <<>>, <<>>)

\* _build_column_header_line with the sample names in reverse
_build_column_header_line_reversed(sample_names) ==
    Line(1, _VCF_FIXED_HEADERS \o [i \in 1..Len(sample_names) |->
                                       sample_names[Len(sample_names) + 1 - i]])

_build_column_header_line(sample_names) == Line(1, _VCF_FIXED_HEADERS \o sample_names)

\* lines 201-206 of _create_vcf
vcf_headers(execution_context, tags_) ==
    LET exec_tags         == execution_context
        zither_metaheader == Line(2, <<"zither=<", exec_tags, ">">>)
    IN  <<Line(2, <<"fileformat=VCFv4.1">>)>>
        \o [i \in 1..Len(tags_) |-> tags_[i].metaheader]
        \o <<zither_metaheader>>

\* line 208
FORMAT(tags_) == [i \in 1..Len(tags_) |-> tags_[i].id]

\* line 228 iterating DEFAULT_TAGS instead of the tags it was given
sample_field_of_default_tags(tags_, pileup_stats) ==
    [j \in 1..Len(DEFAULT_TAGS) |-> get_value(DEFAULT_TAGS[j], pileup_stats)]

\* lines 228-229: the values of one sample, in tag order
sample_field(tags_, pileup_stats) ==
    [j \in 1..Len(tags_) |-> get_value(tags_[j], pileup_stats)]

\* lines 224-230 for one sample, given the outcomes of int(POS) and of
\* get_pileup_stats: the sample's field is appended to vcf_fields
with_sample(acc, tags_, pos, st) ==
    IF acc.raise # "" THEN acc
    ELSE IF pos.raise # ""
    THEN [acc EXCEPT !.raise = pos.raise, !.where = "int"]
    ELSE IF st.raise # ""
    THEN [acc EXCEPT !.raise = st.raise, !.where = "get_pileup_stats",
                     !.queries = @ + st.queries]
    ELSE [acc EXCEPT !.vcf_fields = Append(@, sample_field(tags_, st.value)),
                     !.queries = @ + st.queries]

\* lines 222-230: one field per sample, in the order of sample_reader_dict.keys();
\* int(POS) is evaluated for each sample, as an argument of get_pileup_stats.
\* The loop is left at the first exception.
RECURSIVE sample_loop(_, _, _, _, _)
sample_loop(sample_reader_dict, tags_, rec, i, acc) ==
    IF i > Len(sample_reader_dict) \/ acc.raise # "" THEN acc
    ELSE sample_loop(sample_reader_dict, tags_, rec, i + 1,
             with_sample(acc, tags_, py_int(rec[2]),
                 get_pileup_stats(od_get(sample_reader_dict, od_keys(sample_reader_dict)[i]),
                                  rec[1], py_int(rec[2]).value, rec[4], rec[5])))

\* line 215 testing for "##" instead of "#"
skips_line_if_double_hash(line) == startswith(line, 2)

\* line 215: the lines the loop of _create_vcf passes over
skips_line(line) == startswith(line, 1)

\* line 232: the record is printed unless an exception left the loop body
printed(line, r) ==
    [raise |-> r.raise, where |-> r.where, queries |-> r.queries,
     out |-> IF r.raise = "" THEN <<Line(line.hash, r.vcf_fields)>> ELSE <<>>]

\* lines 216-221: the first five fields, three nulls and FORMAT; unpacking
\* fewer than five fields raises ValueError
parsed(vcf_fields, tags_) ==
    IF Len(vcf_fields) # 5
    THEN [raise |-> "ValueError", where |-> "unpack", vcf_fields |-> <<>>, queries |-> 0]
    ELSE [raise |-> "", where |-> "", queries |-> 0,
          vcf_fields |-> vcf_fields \o <<".", ".", ".", FORMAT(tags_)>>]

\* lines 215-232, the body of the loop for one line: the lines it prints (none
\* or one), the count_coverage calls it made, and the exception that left it
loop_body(line, sample_reader_dict, tags_) ==
    IF skips_line(line) THEN [raise |-> "", where |-> "", out |-> <<>>, queries |-> 0]
    ELSE printed(line, sample_loop(sample_reader_dict, tags_, slice_to(split(line), 5), 1,
                                   parsed(slice_to(split(line), 5), tags_)))

(***************************************************************************)
(* The inputs of a run.                                                    *)
(***************************************************************************)
InputVcfPath == Path(DataDir, "calls", ".vcf")

\* the lines an input VCF is made of: a metaheader, a column header with two
\* samples, one with none, three data records, and a blank line
LinePool ==
    << Line(2, <<"source=caller">>),
       Line(1, _VCF_FIXED_HEADERS \o <<"S1", "S2">>),
       Line(1, _VCF_FIXED_HEADERS),
       Line(0, <<"chr1", "1", "rs1", <<"A">>, <<"c">>, "50">>),
       Line(0, <<"chr2", "2", ".", <<"A", "T">>, <<"G">>, "50">>),
       Line(0, <<"chr1", "2", ".", <<"A">>, <<"T">>, "50">>),
       Line(0, <<"">>) >>

MappingFileOptions == {NoPath, MapA, MapB, MapC, MapD, MapE}

BamOptions == {NoPath, S2Bam}

\* --base-call-quality and --mapq_minimum
QualityOptions == {<<None, None>>, <<"20", "30">>}

NoError == [type |-> "", where |-> ""]

NoCall == [ref |-> <<>>, alt |-> <<>>, coverage |-> ZeroCoverage]

\* the state when main has parsed its arguments (lines 265-266)
Init ==
    /\ \E mf \in MappingFileOptions, b \in BamOptions, q \in QualityOptions :
          args = [input_vcf |-> InputVcfPath, mapping_file |-> mf, bam |-> b,
                  base_call_quality |-> q[1], mapq_minimum |-> q[2]]
    /\ \E n \in 0..MaxLines : \E ix \in [1..n -> 1..Len(LinePool)] :
          input_file = [i \in 1..n |-> LinePool[ix[i]]]
    /\ tags \in TagSets
    /\ pc = "main"
    /\ strategy = [class |-> ""]
    /\ sample_bam_mapping = <<>>
    /\ reader_dict = <<>>
    /\ handles = <<>>
    /\ stdout = <<>>
    /\ line_no = 0
    /\ n_queries = 0
    /\ error = NoError
    /\ call = NoCall
    /\ ret = <<>>

\* line 267
GetSampleBamStrategy ==
    /\ pc = "main"
    /\ strategy' = _get_sample_bam_strategy(args, input_file)
    /\ pc' = "strategy"
    /\ UNCHANGED <<args, input_file, tags, sample_bam_mapping, reader_dict, handles,
                   stdout, line_no, n_queries, error, call, ret>>

\* line 268, for the outcome r of build_sample_bam_mapping
Mapped(r) ==
    IF r.raise # ""
    THEN /\ pc' = "failed"
         /\ error' = [type |-> r.raise, where |-> "build_sample_bam_mapping"]
         /\ UNCHANGED sample_bam_mapping
    ELSE /\ pc' = "mapped"
         /\ sample_bam_mapping' = r.value
         /\ UNCHANGED error

\* line 268
BuildSampleBamMapping ==
    /\ pc = "strategy"
    /\ Mapped(build_sample_bam_mapping(strategy))
    /\ UNCHANGED <<args, input_file, tags, strategy, reader_dict, handles, stdout,
                   line_no, n_queries, call, ret>>

\* line 269, for the outcome r of _build_reader_dict
ReadersBuilt(r) ==
    /\ handles' = handles \o r.opened
    /\ IF r.raise # ""
       THEN /\ pc' = "failed"
            /\ error' = [type |-> r.raise, where |-> "_build_reader_dict"]
            /\ UNCHANGED reader_dict
       ELSE /\ pc' = "opened"
            /\ reader_dict' = r.value
            /\ UNCHANGED error

\* line 269
BuildReaderDict ==
    /\ pc = "mapped"
    /\ ReadersBuilt(_build_reader_dict(sample_bam_mapping))
    /\ UNCHANGED <<args, input_file, tags, strategy, sample_bam_mapping, stdout,
                   line_no, n_queries, call, ret>>

\* line 270 up to line 213: _create_vcf prints the header block
PrintHeaders ==
    /\ pc = "opened"
    /\ stdout' = stdout \o vcf_headers(_build_execution_context, tags)
                        \o <<_build_column_header_line(od_keys(reader_dict))>>
    /\ pc' = "streaming"
    /\ UNCHANGED <<args, input_file, tags, strategy, sample_bam_mapping, reader_dict,
                   handles, line_no, n_queries, error, call, ret>>

\* one pass of the loop, for the outcome r of its body: an exception ends the
\* run, with the line not printed
LineDone(r) ==
    /\ n_queries' = n_queries + r.queries
    /\ IF r.raise # ""
       THEN /\ pc' = "failed"
            /\ error' = [type |-> r.raise, where |-> r.where]
            /\ UNCHANGED <<stdout, line_no>>
       ELSE /\ stdout' = stdout \o r.out
            /\ line_no' = line_no + 1
            /\ UNCHANGED <<pc, error>>

\* lines 214-232: one pass of the loop over input_file.readlines()
ProcessLine ==
    /\ pc = "streaming"
    /\ line_no < Len(readlines(input_file))
    /\ LineDone(loop_body(readlines(input_file)[line_no + 1], reader_dict, tags))
    /\ UNCHANGED <<args, input_file, tags, strategy, sample_bam_mapping, reader_dict,
                   handles, call, ret>>

\* the loop over the lines ends: the input is exhausted
EndOfInput ==
    /\ pc = "streaming"
    /\ line_no = Len(readlines(input_file))
    /\ pc' = "End"
    /\ UNCHANGED <<args, input_file, tags, strategy, sample_bam_mapping, reader_dict,
                   handles, stdout, line_no, n_queries, error, call, ret>>

Next ==
    \/ GetSampleBamStrategy
    \/ BuildSampleBamMapping
    \/ BuildReaderDict
    \/ PrintHeaders
    \/ ProcessLine
    \/ EndOfInput

Spec == Init /\ [][Next]_vars

(***************************************************************************)
(* A direct call of _PileupStats._init_depth_freq.                         *)
(***************************************************************************)
Refs == {<<>>, <<"A">>, <<"A", "T">>}

Alts == {<<>>, <<"A">>, <<"c">>, <<"G">>, <<"t">>, <<"N">>, <<"n">>, <<"*">>, <<"C", "G">>}

Coverages == {<<<<a>>, <<c>>, <<g>>, <<t>>>> : a, c, g, t \in 0..MaxCount}

InitStats ==
    /\ args = [input_vcf |-> InputVcfPath, mapping_file |-> NoPath, bam |-> NoPath,
               base_call_quality |-> None, mapq_minimum |-> None]
    /\ input_file = <<>>
    /\ tags = DEFAULT_TAGS
    /\ pc = "stats"
    /\ strategy = [class |-> ""]
    /\ sample_bam_mapping = <<>>
    /\ reader_dict = <<>>
    /\ handles = <<>>
    /\ stdout = <<>>
    /\ line_no = 0
    /\ n_queries = 0
    /\ error = NoError
    /\ call \in [ref : Refs, alt : Alts, coverage : Coverages]
    /\ ret = <<>>

\* lines 97-116
InitDepthFreq ==
    /\ pc = "stats"
    /\ ret = <<>>
    /\ ret' = <<_init_depth_freq(call.ref, call.alt, call.coverage)>>
    /\ UNCHANGED <<args, input_file, tags, pc, strategy, sample_bam_mapping, reader_dict,
                   handles, stdout, line_no, n_queries, error, call>>

NextStats == InitDepthFreq

SpecStats == InitStats /\ [][NextStats]_vars

(***************************************************************************)
(* Views of a state used by the properties below.                          *)
(***************************************************************************)
\* the generated header block: fileformat, one line per tag, zither, #CHROM
HeaderLen == Len(tags) + 3

\* the lines printed after the header block
DataOut == SubSeq(stdout, HeaderLen + 1, Len(stdout))

\* the non-header lines of the input, in input order
DataIn == SelectSeq(input_file, LAMBDA l : l.hash = 0)

\* how many of the first n input lines are non-header lines
NData(n) == Len(SelectSeq(SubSeq(input_file, 1, n), LAMBDA l : l.hash = 0))

\* the first five fields of a line, or all of them when it has fewer
First5(line) == SubSeq(line.fields, 1, Min(5, Len(line.fields)))

\* the statistics of one record for one BAM file, from a fresh query
StatsFor(bam, line) ==
    get_pileup_stats([_bam_file_name |-> bam, _bam_file |-> 0], line.fields[1],
                     py_int(line.fields[2]).value, line.fields[4], line.fields[5]).value

\* the value a FORMAT key stands for
ValueOfKey(id, st) ==
    CASE id = "ZTDP" -> str_int(st.zither_total_depth)
      [] id = "ZTAF" -> st.zither_total_af
      [] id = "ZFDP" -> str_int(st.filtered_depth)
      [] id = "ZFAF" -> st.filtered_af

(***************************************************************************)
(* C1 (SpecStats).  _init_depth_freq never raises; the depth it returns is *)
(* the sum of the four counts; the frequency is "." when the depth is 0,   *)
(* the ref is not one base long or the upper-cased alt is none of A, C, G, *)
(* T; otherwise it is the quotient count(alt) / depth.                     *)
(***************************************************************************)
C1_Sum == call.coverage[1][1] + call.coverage[2][1] + call.coverage[3][1] + call.coverage[4][1]

C1_AltIsBase == Len(call.alt) = 1 /\ upper_char(call.alt[1]) \in {"A", "C", "G", "T"}

C1_AltCount ==
    CASE upper_char(call.alt[1]) = "A" -> call.coverage[1][1]
      [] upper_char(call.alt[1]) = "C" -> call.coverage[2][1]
      [] upper_char(call.alt[1]) = "G" -> call.coverage[3][1]
      [] upper_char(call.alt[1]) = "T" -> call.coverage[4][1]

C1_DepthAndFrequency ==
    Len(ret) = 1 =>
        /\ ret[1].raise = ""
        /\ ret[1].value[1] = C1_Sum
        /\ IF C1_Sum = 0 \/ Len(call.ref) # 1 \/ ~C1_AltIsBase
           THEN ret[1].value[2] = _NULL
           ELSE /\ ret[1].value[2] # _NULL
                /\ \E n \in 0..C1_Sum, d \in 1..C1_Sum :
                      /\ ret[1].value[2] = str_float(<<n, d>>)
                      /\ n * C1_Sum = C1_AltCount * d

\* a lower-case alt with a proper, non-zero frequency
C1_Witness ==
    /\ Len(ret) = 1
    /\ call.alt = <<"c">>
    /\ Len(call.ref) = 1
    /\ call.coverage[2][1] > 0
    /\ call.coverage[2][1] < C1_Sum
    /\ ret[1].value[2] # _NULL

(***************************************************************************)
(* C2.  As claimed, and only for inputs whose non-header lines all have    *)
(* five fields or more: whenever a run that began to write has ended,      *)
(* normally or not, it has written as many data lines as the input has     *)
(* non-header lines.                                                       *)
(***************************************************************************)
C2_Original ==
    (/\ pc \in {"End", "failed"}
     /\ Len(stdout) > 0
     /\ \A i \in 1..Len(input_file) :
           input_file[i].hash = 0 => Len(input_file[i].fields) >= 5)
        => Len(DataOut) = Len(DataIn)

(***************************************************************************)
(* C2, amended.  At every moment the data lines written carry, in order,   *)
(* the CHROM, POS, ID, REF, ALT of the first non-header lines of the       *)
(* input; in a run that reaches End there are as many data lines as        *)
(* non-header input lines.                                                 *)
(***************************************************************************)
C2_OneToOneInOrder ==
    /\ Len(DataOut) <= Len(DataIn)
    /\ \A k \in 1..Len(DataOut) :
          /\ DataOut[k].hash = 0
          /\ Len(First5(DataIn[k])) = 5
          /\ First5(DataOut[k]) = First5(DataIn[k])
    /\ pc = "End" => Len(DataOut) = Len(DataIn)

\* a finished run over two different records with a header line between them
C2_Witness ==
    /\ pc = "End"
    /\ Len(input_file) = 3
    /\ input_file[1].hash = 0
    /\ input_file[2].hash > 0
    /\ input_file[3].hash = 0
    /\ Len(DataOut) = 2
    /\ DataOut[1].fields[2] # DataOut[2].fields[2]

(***************************************************************************)
(* C3.  Once the header block is written, the sample names of the #CHROM   *)
(* line are the keys of the resolved mapping, in its order; every data     *)
(* line has 9 + sampleCount fields, and its i-th sample field holds the    *)
(* statistics of the BAM file of the i-th mapped sample, whose reader owns *)
(* a handle opened on that file.                                           *)
(***************************************************************************)
C3_SampleOrder ==
    Len(stdout) > 0 =>
        /\ Len(reader_dict) = Len(sample_bam_mapping)
        /\ stdout[HeaderLen].hash = 1
        /\ Len(stdout[HeaderLen].fields) = 9 + Len(sample_bam_mapping)
        /\ \A i \in 1..Len(sample_bam_mapping) :
              /\ stdout[HeaderLen].fields[9 + i] = sample_bam_mapping[i][1]
              /\ reader_dict[i][1] = sample_bam_mapping[i][1]
              /\ handles[reader_dict[i][2]._bam_file].file = sample_bam_mapping[i][2]
        /\ \A k \in 1..Len(DataOut) :
              /\ Len(DataOut[k].fields) = 9 + Len(sample_bam_mapping)
              /\ \A i \in 1..Len(sample_bam_mapping) :
                    DataOut[k].fields[9 + i] =
                        sample_field(tags, StatsFor(sample_bam_mapping[i][2], DataIn[k]))

\* a mapping file whose order (S2, S1) is not that of the VCF header, and a
\* data line whose two sample fields differ
C3_Witness ==
    /\ Len(sample_bam_mapping) = 2
    /\ sample_bam_mapping[1][1] = "S2"
    /\ sample_bam_mapping[2][1] = "S1"
    /\ Len(DataOut) > 0
    /\ DataOut[1].fields[10] # DataOut[1].fields[11]

(***************************************************************************)
(* C4.  The ##FORMAT lines follow the tag set's order; the FORMAT field of *)
(* every data line is the tag identifiers in that order; every sample      *)
(* field has one value per tag, the j-th being the value of the j-th key.  *)
(***************************************************************************)
C4_TagOrder ==
    Len(stdout) > 0 =>
        /\ \A j \in 1..Len(tags) :
              /\ stdout[1 + j].hash = 2
              /\ stdout[1 + j].fields[1] = "FORMAT=<ID="
              /\ stdout[1 + j].fields[2] = tags[j].id
        /\ \A k \in 1..Len(DataOut) :
              /\ Len(DataOut[k].fields[9]) = Len(tags)
              /\ \A j \in 1..Len(tags) : DataOut[k].fields[9][j] = tags[j].id
              /\ \A i \in 1..Len(reader_dict) :
                    /\ Len(DataOut[k].fields[9 + i]) = Len(DataOut[k].fields[9])
                    /\ \A j \in 1..Len(tags) :
                          DataOut[k].fields[9 + i][j] =
                              ValueOfKey(tags[j].id,
                                         StatsFor(reader_dict[i][2]._bam_file_name, DataIn[k]))

\* a custom tag set and a sample field whose values differ
C4_Witness ==
    /\ tags # DEFAULT_TAGS
    /\ Len(reader_dict) > 0
    /\ Len(DataOut) > 0
    /\ DataOut[1].fields[10][1] # _NULL
    /\ DataOut[1].fields[10][2] # "0"

(***************************************************************************)
(* C5.  From the moment the run streams, the output starts with the        *)
(* generated header block (##fileformat=VCFv4.1, one ##FORMAT line per     *)
(* tag, the ##zither line, the #CHROM line), and no other printed line     *)
(* starts with '#': the block is written once, before every data line, and *)
(* no '#' line of the input is written.                                    *)
(***************************************************************************)
C5_HeaderBlockOnce ==
    (pc \in {"streaming", "End"} \/ Len(stdout) > 0) =>
        /\ Len(stdout) >= HeaderLen
        /\ \A i \in 1..Len(stdout) : (stdout[i].hash > 0) = (i <= HeaderLen)
        /\ stdout[1] = Line(2, <<"fileformat=VCFv4.1">>)
        /\ \A j \in 1..Len(tags) : stdout[1 + j] = tags[j].metaheader
        /\ stdout[HeaderLen - 1].hash = 2
        /\ stdout[HeaderLen - 1].fields[1] = "zither=<"
        /\ stdout[HeaderLen].hash = 1
        /\ SubSeq(stdout[HeaderLen].fields, 1, 9) = _VCF_FIXED_HEADERS

\* a finished run whose input has a '#' line after a data record that was written
C5_Witness ==
    /\ pc = "End"
    /\ Len(input_file) = 3
    /\ input_file[1].hash = 2
    /\ input_file[2].hash = 0
    /\ input_file[3].hash = 1
    /\ Len(stdout) = HeaderLen + 1

(***************************************************************************)
(* C6.  As claimed: a run under the matching-name strategy whose VCF has a *)
(* column-header line, declares no sample name and has no malformed        *)
(* record, ends with NoSampleNamesFound and has written nothing.           *)
(***************************************************************************)
C6_NoSampleNamesFound ==
    (/\ pc \in {"End", "failed"}
     /\ strategy.class = "_MatchingNameStrategy"
     /\ \E i \in 1..Len(input_file) : input_file[i].hash = 1
     /\ \A i \in 1..Len(input_file) :
           input_file[i].hash = 0 => Len(input_file[i].fields) >= 5
     /\ Len(strategy._sample_names) = 0)
        => (pc = "failed" /\ error.type = "NoSampleNamesFound" /\ Len(stdout) = 0)

(***************************************************************************)
(* C7.  Nothing is printed before every mapped sample has a reader with an *)
(* open handle on its BAM file; when the file of any mapped sample cannot  *)
(* be opened, the run fails in _build_reader_dict and prints nothing.      *)
(***************************************************************************)
C7_NoOutputBeforeSourcesOpen ==
    /\ Len(stdout) > 0 =>
          /\ pc \in {"streaming", "End", "failed"}
          /\ Len(reader_dict) = Len(sample_bam_mapping)
          /\ \A i \in 1..Len(sample_bam_mapping) :
                /\ bam_exists(sample_bam_mapping[i][2])
                /\ handles[reader_dict[i][2]._bam_file].file = sample_bam_mapping[i][2]
                /\ handles[reader_dict[i][2]._bam_file].state = "open"
    /\ (\E i \in 1..Len(sample_bam_mapping) : ~bam_exists(sample_bam_mapping[i][2])) =>
          /\ Len(stdout) = 0
          /\ \/ pc = "mapped"
             \/ pc = "failed" /\ error.where = "_build_reader_dict"

\* the second of two mapped samples has no file: the run has failed after
\* opening the first
C7_Witness ==
    /\ pc = "failed"
    /\ error.where = "_build_reader_dict"
    /\ Len(sample_bam_mapping) = 2
    /\ bam_exists(sample_bam_mapping[1][2])
    /\ ~bam_exists(sample_bam_mapping[2][2])
    /\ Len(handles) = 1
    /\ Len(DataIn) > 0

(***************************************************************************)
(* C8.  A sample whose BAM file does not know the record's contig gets     *)
(* depth 0 and "." for every tag, and the run goes on: while it streams,   *)
(* every non-header line consumed so far has been written.  Any other      *)
(* failure of the lookup ends the run: with a source whose lookups fail,   *)
(* no record is written and the run does not reach End.                    *)
(***************************************************************************)
C8_UnknownContigRecovered ==
    /\ \A k \in 1..Len(DataOut) : \A i \in 1..Len(reader_dict) :
          DataOut[k].fields[1] \notin bam_references(reader_dict[i][2]._bam_file_name) =>
              \A j \in 1..Len(tags) :
                  DataOut[k].fields[9 + i][j] =
                      (IF tags[j].id \in {"ZTDP", "ZFDP"} THEN "0" ELSE _NULL)
    /\ pc \in {"streaming", "End"} => Len(DataOut) = NData(line_no)
    /\ (\E i \in 1..Len(reader_dict) : ~bam_indexed(reader_dict[i][2]._bam_file_name)) =>
          /\ Len(DataOut) = 0
          /\ NData(line_no) = 0
          /\ pc = "End" => Len(DataIn) = 0
    /\ (pc = "failed" /\ error.where = "get_pileup_stats") =>
          /\ error.type = "ValueError"
          /\ input_file[line_no + 1].hash = 0
          /\ \E i \in 1..Len(reader_dict) : ~bam_indexed(reader_dict[i][2]._bam_file_name)

\* the first of two samples does not know the contig of the first record,
\* the second does, and a later record has been written too
C8_Witness ==
    /\ pc = "End"
    /\ Len(reader_dict) = 2
    /\ Len(DataOut) = 2
    /\ DataOut[1].fields[1] \notin bam_references(reader_dict[1][2]._bam_file_name)
    /\ DataOut[1].fields[1] \in bam_references(reader_dict[2][2]._bam_file_name)
    /\ DataOut[2].fields[1] \in bam_references(reader_dict[1][2]._bam_file_name)

(***************************************************************************)
(* C9.  As claimed: in a run that has reached End, every handle opened by  *)
(* _build_reader_dict has been released.                                   *)
(***************************************************************************)
C9_HandlesReleased ==
    pc = "End" => \A h \in 1..Len(handles) : handles[h].state = "closed"

====
